---------------------------- MODULE Spec2Model ----------------------------
(***************************************************************************)
(* A model of the mouse2 toolkit:                                          *)
(*   - calculate_aggregation.py: the command line of the aggregate         *)
(*     detector and determine_aggregates (specification Spec);             *)
(*   - mouse2_tests/create_configuration.py: the generator of synthetic    *)
(*     configurations (specification SpecGen).                             *)
(* Lengths are fixed-point numbers in hundredths (1.2 is 120).             *)
(***************************************************************************)
EXTENDS Integers, Sequences, FiniteSets, TLC

(* ------------------------------ bounds -------------------------------- *)
\* particles of the analysed universe
NAtoms == 4
\* frames of the analysed trajectory
NFrames == 2

\* Python's None, for a selection string
None == "None"
\* an optional value: Nothing (Python's None) or Some(x)
Nothing == <<>>
Some(x) == <<x>>

(* ----------------------------- sequences ------------------------------ *)
Range(s) == {s[i] : i \in 1..Len(s)}

RECURSIVE SeqOfSet(_)
\* the ascending sequence of a finite set of integers
SeqOfSet(S) ==
  IF S = {} THEN <<>>
  ELSE LET m == CHOOSE x \in S : \A y \in S : x <= y
       IN <<m>> \o SeqOfSet(S \ {m})

\* list.remove(x): drops the first occurrence of x
ListRemove(s, x) ==
  LET i == CHOOSE k \in 1..Len(s) : s[k] = x /\ \A j \in 1..(k - 1) : s[j] # x
  IN SubSeq(s, 1, i - 1) \o SubSeq(s, i + 1, Len(s))

RECURSIVE ListRemoveAll(_, _)
\* list.remove applied to every element of xs in turn
ListRemoveAll(s, xs) ==
  IF xs = <<>> THEN s
  ELSE ListRemoveAll(ListRemove(s, Head(xs)), Tail(xs))

(* ----------------- command line of the aggregate detector ------------- *)
Digits == {"0", "1", "2", "3", "4", "5", "6", "7", "8", "9"}

DigitVal(c) ==
  CASE c = "0" -> 0 [] c = "1" -> 1 [] c = "2" -> 2 [] c = "3" -> 3
    [] c = "4" -> 4 [] c = "5" -> 5 [] c = "6" -> 6 [] c = "7" -> 7
    [] c = "8" -> 8 [] c = "9" -> 9

AllDigits(s) == \A i \in 1..Len(s) : s[i] \in Digits

RECURSIVE NatOf(_)
NatOf(s) == IF s = <<>> THEN 0
            ELSE NatOf(SubSeq(s, 1, Len(s) - 1)) * 10 + DigitVal(s[Len(s)])

\* the token without its sign
Unsigned(tok) ==
  IF tok # <<>> /\ tok[1] \in {"-", "+"} THEN Tail(tok) ELSE tok

DotAt(s) == {i \in 1..Len(s) : s[i] = "."}

\* float(tok) succeeds: [sign] digits [. [digits]]  or  [sign] . digits
\* (the decimal forms of Python's float grammar)
IsFloat(tok) ==
  LET u == Unsigned(tok)
  IN /\ u # <<>>
     /\ Cardinality(DotAt(u)) <= 1
     /\ IF DotAt(u) = {} THEN AllDigits(u)
        ELSE LET d == CHOOSE i \in DotAt(u) : TRUE
                 ip == SubSeq(u, 1, d - 1)
                 fp == SubSeq(u, d + 1, Len(u))
             IN AllDigits(ip) /\ AllDigits(fp) /\ (ip # <<>> \/ fp # <<>>)

\* float(tok) in hundredths (digits after the second decimal are dropped)
FloatOf(tok) ==
  LET u == Unsigned(tok)
      d == IF DotAt(u) = {} THEN Len(u) + 1 ELSE CHOOSE i \in DotAt(u) : TRUE
      ip == SubSeq(u, 1, d - 1)
      fp == SubSeq(u, d + 1, Len(u))
      f2 == SubSeq(fp \o <<"0", "0">>, 1, 2)
      mag == NatOf(ip) * 100 + NatOf(f2)
  IN IF tok[1] = "-" THEN 0 - mag ELSE mag

\* default of --r_neigh
DefaultRNeigh == 120

\* the values given to --r_neigh on the command lines explored
RNeighTokens ==
  { <<"1", ".", "2">>, <<"0", ".", "5">>, <<"0">>, <<"-", "1">>,
    <<"-", "0", ".", "5">>, <<"a", "b", "c">>, <<"1", ".", "2", ".", "3">>,
    <<>>, <<"-">>, <<".">> }

\* --r_neigh absent, given without a value (nargs = '?'), or given a value
RNeighArgs ==
  {[kind |-> "absent", tok |-> <<>>], [kind |-> "novalue", tok |-> <<>>]}
    \cup {[kind |-> "value", tok |-> t] : t \in RNeighTokens}

\* ArgAccepted with a check that the number is positive
ArgAcceptedPositive(arg) ==
  arg.kind = "value" => IsFloat(arg.tok) /\ FloatOf(arg.tok) > 0

\* argparse accepts the --r_neigh argument (type = float)
ArgAccepted(arg) == arg.kind = "value" => IsFloat(arg.tok)

\* args.r_neigh after parse_args
ParsedRNeigh(arg) ==
  CASE arg.kind = "absent" -> Some(DefaultRNeigh)
    [] arg.kind = "novalue" -> Nothing
    [] arg.kind = "value" -> Some(FloatOf(arg.tok))

(* ------------------------- universe and frames ------------------------ *)
Particles == 0..(NAtoms - 1)

\* topology of the explored universe: the type label of each particle
TypeOf(i) == IF i % 2 = 0 THEN "1" ELSE "2"

\* the selection strings explored (None: no --selection)
Selections == {None, "type 1", "type 2"}

\* SelectAtoms with the selection ignored
SelectAtomsAll(selection) == SeqOfSet(Particles)

\* u.select_atoms(selection).indices / u.atoms.indices, ascending
SelectAtoms(selection) ==
  CASE selection = None -> SeqOfSet(Particles)
    [] selection = "type 1" -> SeqOfSet({i \in Particles : TypeOf(i) = "1"})
    [] selection = "type 2" -> SeqOfSet({i \in Particles : TypeOf(i) = "2"})

\* u.dimensions: a cubic box of edge 100
Box == <<10000, 10000, 10000>>

\* the frames of the explored trajectories: the positions of all particles
\*   Line     a line along x at spacing 1
\*   ZigZag   the same line, the particles placed on it from both ends
\*   Middle   the same line, particle 0 in its middle
\*   Pairs    pairs at spacing 0.5, the pairs 10 apart
\*   Rows     two rows 0.6 apart, even particles in one, odd in the other
\*   FarRows  the same rows 30 apart
\*   Wrap     a line at spacing 0.5 across the periodic boundary
\*   Origin   all particles at the origin
Line == [i \in Particles |-> <<100 * i, 0, 0>>]
ZigZag == [i \in Particles |->
             <<100 * (IF i % 2 = 0 THEN i \div 2 ELSE NAtoms - 1 - (i \div 2)), 0, 0>>]
Middle == [i \in Particles |-> <<100 * ((i + (NAtoms \div 2)) % NAtoms), 0, 0>>]
Pairs == [i \in Particles |-> <<1000 * (i \div 2) + 50 * (i % 2), 0, 0>>]
Rows == [i \in Particles |-> <<100 * (i \div 2), 60 * (i % 2), 0>>]
FarRows == [i \in Particles |-> <<100 * (i \div 2), 3000 * (i % 2), 0>>]
Wrap == [i \in Particles |-> <<(9950 + 50 * i) % 10000, 0, 0>>]
Origin == [i \in Particles |-> <<0, 0, 0>>]

FramePositions == {Line, ZigZag, Middle, Pairs, Rows, FarRows, Wrap, Origin}

Abs(x) == IF x < 0 THEN 0 - x ELSE x

\* minimum-image separation along one axis
MinImage(d, edge) == IF Abs(d) > edge - Abs(d) THEN edge - Abs(d) ELSE Abs(d)

Dist2(p, q, box) ==
  LET dx == MinImage(p[1] - q[1], box[1])
      dy == MinImage(p[2] - q[2], box[2])
      dz == MinImage(p[3] - q[3], box[3])
  IN dx * dx + dy * dy + dz * dz

\* calculate_neighborlists_from_distances: for every index its neighbours
\* (distance <= r_max under the minimum image convention, self excluded),
\* in ascending order
NeighborLists(atom_indices, positions, box, r_max) ==
  [a \in Range(atom_indices) |->
     SeqOfSet({b \in Range(atom_indices) :
                 /\ b # a
                 /\ r_max >= 0
                 /\ Dist2(positions[a], positions[b], box) <= r_max * r_max})]

(* ------------------------------- graph -------------------------------- *)
\* nx.Graph(): nodes in insertion order, adjacency lists in insertion order
EmptyGraph == [nodes |-> <<>>, adj |-> [i \in Particles |-> <<>>]]

HasNode(g, n) == n \in Range(g.nodes)

AddUnique(s, x) == IF x \in Range(s) THEN s ELSE Append(s, x)

\* Graph.add_edge(u, v)
AddEdge(g, u, v) ==
  LET nodes1 == AddUnique(AddUnique(g.nodes, u), v)
      adj1 == [g.adj EXCEPT ![u] = AddUnique(@, v)]
      adj2 == [adj1 EXCEPT ![v] = AddUnique(@, u)]
  IN [nodes |-> nodes1, adj |-> adj2]

RECURSIVE AddNeighbors(_, _)
\* the inner loop, for neighbor in neighborlists[atom_index], on the loop
\* state st = [g: the graph so far, nbrs: the neighbours still to come]
AddNeighbors(st, a) ==
  IF st.nbrs = <<>> THEN st.g
  ELSE AddNeighbors([g |-> AddEdge(st.g, a, Head(st.nbrs)),
                     nbrs |-> Tail(st.nbrs)], a)

RECURSIVE BuildLoop(_, _)
\* the outer loop, for atom_index in neighborlists, on the loop state
\* st = [g: the graph so far, keys: the keys still to come]
BuildLoop(st, neighborlists) ==
  IF st.keys = <<>> THEN st.g
  ELSE BuildLoop([g |-> AddNeighbors([g |-> st.g,
                                      nbrs |-> neighborlists[Head(st.keys)]],
                                     Head(st.keys)),
                  keys |-> Tail(st.keys)], neighborlists)

\* graph = nx.Graph() filled from the neighbour lists, whose keys come in
\* the order of atom_indices
BuildGraph(atom_indices, neighborlists) ==
  BuildLoop([g |-> EmptyGraph, keys |-> atom_indices], neighborlists)

\* one turn of "while stack" in nx.dfs_labeled_edges: the iterator of the
\* node on top of the stack runs to its first unvisited child, which is
\* pushed; when there is none the node is popped and yielded ("reverse")
DfsTurn(g, st) ==
  LET n == Len(st.stack)
      top == st.stack[n]
      children == g.adj[top.node]
      fresh == {i \in top.next..Len(children) : children[i] \notin st.visited}
  IN IF fresh = {}
     THEN [stack |-> SubSeq(st.stack, 1, n - 1),
           visited |-> st.visited,
           out |-> Append(st.out, top.node)]
     ELSE LET i == CHOOSE k \in fresh : \A j \in fresh : k <= j
          IN [stack |-> Append([st.stack EXCEPT ![n].next = i + 1],
                               [node |-> children[i], next |-> 1]),
              visited |-> st.visited \cup {children[i]},
              out |-> st.out]

RECURSIVE DfsLoop(_, _, _)
\* at most n turns of the stack loop, stopping when the stack is empty
DfsLoop(g, st, n) ==
  IF st.stack = <<>> THEN st
  ELSE IF n <= 1 THEN DfsTurn(g, st)
  ELSE LET mid == DfsLoop(g, st, n \div 2)
       IN IF mid.stack = <<>> THEN mid ELSE DfsLoop(g, mid, n - (n \div 2))

\* nx.dfs_postorder_nodes(graph, source) for a source that is a node: every
\* node is pushed once and popped once
DfsPostorderNodes(g, source) ==
  DfsLoop(g, [stack |-> <<[node |-> source, next |-> 1]>>,
              visited |-> {source}, out |-> <<>>], 2 * NAtoms).out

\* the traversal raises (the source is not a node of the graph)
DfsRaises(g, source) == ~HasNode(g, source)

(* ------------------------------ results ------------------------------- *)
\* TsStr without the frame number
TsStrNoFrame(ts) == <<"< Timestep", "with unit cell dimensions", Box, ">">>

\* str(ts): the text of the Timestep, which carries the frame number
TsStr(ts) == <<"< Timestep", ts, "with unit cell dimensions", Box, ">">>

\* d[k] = v on an insertion-ordered dict kept as a sequence of entries
DictSet(d, k, v) ==
  IF \E i \in 1..Len(d) : d[i].key = k
  THEN [i \in 1..Len(d) |-> IF d[i].key = k THEN [key |-> k, value |-> v] ELSE d[i]]
  ELSE Append(d, [key |-> k, value |-> v])

DictKeys(d) == [i \in 1..Len(d) |-> d[i].key]

\* the description string, as its parts
Description(r, selection) ==
  IF selection # None
  THEN <<"Lists of aggregates for a given timestep. Cutoff radius r_neigh =",
         r, " Selection: ", selection>>
  ELSE <<"Lists of aggregates for a given timestep. Cutoff radius r_neigh =", r>>

(* ------------------------------- state -------------------------------- *)
VARIABLES
  pc,                 \* position of the aggregate detector's process
  argv,               \* the command line: [r_neigh, selection, input_ok]
  args,               \* parse_args' result: [r_neigh, selection]
  exit_status,        \* exit status of the process, Nothing while it runs
  error,              \* the exception that ended the process, "" if none
  u,                  \* "unloaded" or "loaded": mda.Universe(*args.input)
  description,        \* determine_aggregates' locals
  atoms,
  data,
  ts,                 \* frame number of the current Timestep
  neighborlists,
  graph,
  atom_indices_list,
  aggregates,
  iterations,         \* iterations of the while loop in the current frame
  result,             \* the returned object, Nothing before the return
  stdout              \* what was printed

aggVars == <<pc, argv, args, exit_status, error, u, description, atoms, data,
             ts, neighborlists, graph, atom_indices_list, aggregates, iterations, result, stdout>>


(* ===================== the configuration generator ==================== *)
\* lengths of the generator are fixed-point numbers in units of 0.0001

(* ------------------------------ bounds -------------------------------- *)
\* molecules built by a run (4000 in the source)
NMOL == 2
\* particles per molecule (20 in the source)
NPOLY == 3
\* the states the operating system can seed an unseeded generator with
NEntropy == 2

(* ----------------------------- constants ------------------------------ *)
RANDOM_SEED == 42
\* edge of the cubic cell, CELL[:3]
CELL == <<1000000, 1000000, 1000000>>
LBOND == 10000
RTUBE == 5300
PITCH == 16600
\* 3.3, in tenths
PER_TURN == 33

\* math.cos and math.sin of k * 2 * pi / PER_TURN, times 10000, k = 1..20
CosTab == <<-3271, -7861, 8413, 2358, -9955, 4154, 7237, -8888, -1423, 9819,
            -5000, -6549, 9284, 476, -9595, 5801, 5801, -9595, 476, 9284>>
SinTab == <<9450, -6182, -5406, 9718, -951, -9096, 6901, 4582, -9898, 1893,
            8660, -7557, -3717, 9989, -2817, -8146, 8146, 2817, -9989, 3717>>

\* a product of two fixed-point numbers, rounded
FixMul(a, b) == (a * b + 5000) \div 10000

(* --------------------------- the type token --------------------------- *)
\* s[:n] and s[-n:] of Python
Prefix(s, n) == SubSeq(s, 1, IF n < Len(s) THEN n ELSE Len(s))
Suffix(s, n) == SubSeq(s, IF Len(s) - n + 1 > 1 THEN Len(s) - n + 1 ELSE 1, Len(s))

StrRandom == <<"r", "a", "n", "d", "o", "m">>
StrRods == <<"r", "o", "d", "s">>
StrHelices == <<"h", "e", "l", "i", "c", "e", "s">>
StrDisordered == <<"d", "i", "s", "o", "r", "d", "e", "r", "e", "d">>
StrCoils == <<"c", "o", "i", "l", "s">>

\* the values given to --type on the command lines explored
TypeTokens ==
  { StrRandom, StrRods, StrHelices,
    StrDisordered \o <<"-">> \o StrRandom,
    StrDisordered \o <<"-">> \o StrRods,
    StrDisordered \o <<"-">> \o StrHelices,
    StrRandom \o <<"-">> \o StrRods,
    StrCoils }

\* IsDisordered with a slice too short to hold the word
IsDisorderedShort(system_type) == Prefix(system_type, 6) = StrDisordered

\* system_type[:10] == "disordered"
IsDisordered(system_type) == Prefix(system_type, 10) = StrDisordered
\* system_type[:6] == "random"
RandomRule(system_type) == Prefix(system_type, 6) = StrRandom
\* RodsRule with the head of the token in place of its tail
RodsRulePrefix(system_type) == Prefix(system_type, 4) = StrRods

\* system_type[-4:] == "rods"
RodsRule(system_type) == Suffix(system_type, 4) = StrRods
\* system_type[-7:] == "helices"
HelixRule(system_type) == Suffix(system_type, 7) = StrHelices

(* -------------------------- random sources ---------------------------- *)
\* the seeds an unseeded generator starts from
Entropies == 0..(NEntropy - 1)

\* a generator: the seed it started from and the draws made since
Seeded(seed) == [seed |-> seed, n |-> 0]
Advance(rng) == [rng EXCEPT !.n = @ + 1]

\* random.random(), as quarters of the unit interval
PyValue(rng) == ((rng.seed + 1) * (rng.n + 1) * 3 + rng.n) % 4

\* the rotations Rotation.random() returns in the explored runs: the
\* identity and the quarter turns about x, y and z
Rots == <<"I", "Rx", "Ry", "Rz">>

\* Rotation.random(): drawn from numpy's generator
NpRotation(rng) == Rots[((rng.seed + rng.n * (rng.seed + 1)) % 4) + 1]

\* Rotation.apply(rotation, v)
Apply(rot, v) ==
  CASE rot = "I" -> v
    [] rot = "Rx" -> <<v[1], 0 - v[3], v[2]>>
    [] rot = "Ry" -> <<v[3], v[2], 0 - v[1]>>
    [] rot = "Rz" -> <<0 - v[2], v[1], v[3]>>

VecAdd(v, w) == <<v[1] + w[1], v[2] + w[2], v[3] + w[3]>>

(* ------------------------ shaping of the chain ------------------------ *)
\* the "random walk" block: x, y, z += the rotated bond
RandomStep(pos, rotation) == VecAdd(pos, Apply(rotation, <<0, 0, LBOND>>))
\* the "rod" block: x, y, z += the bond
RodStep(pos) == VecAdd(pos, <<0, 0, LBOND>>)
\* the "helix" block: x, y, z of the atom after atom iatom
HelixPoint(iatom) ==
  <<FixMul(RTUBE, CosTab[iatom + 1]), FixMul(RTUBE, SinTab[iatom + 1]),
    (PITCH * (iatom + 1) * 10) \div PER_TURN>>

\* the rules whose block runs for the token
RulesOf(system_type) ==
  (IF RandomRule(system_type) THEN {"random"} ELSE {})
    \cup (IF RodsRule(system_type) THEN {"rods"} ELSE {})
    \cup (IF HelixRule(system_type) THEN {"helices"} ELSE {})

\* x, y, z after the three blocks, run in the order of the source
NextPoint(system_type, pos, iatom, rotation) ==
  LET p1 == IF RandomRule(system_type) THEN RandomStep(pos, rotation) ELSE pos
      p2 == IF RodsRule(system_type) THEN RodStep(p1) ELSE p1
  IN IF HelixRule(system_type) THEN HelixPoint(iatom) ELSE p2

\* translation_vector = CELL[:3] * [random.random()] * 3
Translation(rng) ==
  LET r1 == rng
      r2 == Advance(r1)
      r3 == Advance(r2)
  IN <<(CELL[1] * PyValue(r1)) \div 4, (CELL[2] * PyValue(r2)) \div 4,
       (CELL[3] * PyValue(r3)) \div 4>>

\* Rotation.apply on the atoms of the molecule, then += translation_vector
Placed(positions, rot, translation) ==
  [i \in 1..Len(positions) |-> VecAdd(Apply(rot, positions[i]), translation)]

(* ------------------------------- state -------------------------------- *)
VARIABLES
  gpc,                \* position of the generator's process
  system_type,        \* args.type[0]
  py_random,          \* the generator of Python's random module
  np_random,          \* numpy's generator, which Rotation.random() draws from
  seeded,             \* the generators random.seed() was called on
  ix,
  imol,
  iatom,
  xyz,                \* x, y, z
  bonds,
  molecule_atoms,     \* positions of the atoms of the molecule being built
  molecule_rotation,  \* Nothing until drawn, then Some([id, rot])
  all_molecules,      \* positions of the placed atoms
  output,             \* the written file, Nothing before the write
  rules_fired,        \* the shaping blocks that have run
  draws,              \* every random draw: [purpose, source]
  applied,            \* the orientation applied to each placed molecule
  run,                \* 1 in the first run of the command line, 2 in the second
  previous_output     \* the file written by the first run

genVars == <<gpc, system_type, py_random, np_random, seeded, ix, imol, iatom,
             xyz, bonds, molecule_atoms, molecule_rotation, all_molecules,
             output, rules_fired, draws, applied, run, previous_output>>

vars == <<aggVars, genVars>>

\* the generator is not running
GenIdle ==
  /\ gpc = "idle"
  /\ system_type = <<>>
  /\ py_random = Seeded(0)
  /\ np_random = Seeded(0)
  /\ seeded = {}
  /\ ix = 0
  /\ imol = 0
  /\ iatom = 0
  /\ xyz = <<0, 0, 0>>
  /\ bonds = <<>>
  /\ molecule_atoms = <<>>
  /\ molecule_rotation = Nothing
  /\ all_molecules = <<>>
  /\ output = Nothing
  /\ rules_fired = {}
  /\ draws = <<>>
  /\ applied = <<>>
  /\ run = 1
  /\ previous_output = Nothing

\* a process of the generator starts: both generators hold what the
\* operating system seeded them with
GenProcessStart(type, e1, e2) ==
  /\ gpc = "start"
  /\ system_type = type
  /\ py_random = Seeded(e1)
  /\ np_random = Seeded(e2)
  /\ seeded = {}
  /\ ix = 0
  /\ imol = 0
  /\ iatom = 0
  /\ xyz = <<0, 0, 0>>
  /\ bonds = <<>>
  /\ molecule_atoms = <<>>
  /\ molecule_rotation = Nothing
  /\ all_molecules = <<>>
  /\ output = Nothing
  /\ rules_fired = {}
  /\ draws = <<>>
  /\ applied = <<>>

Init ==
  /\ pc = "start"
  /\ argv \in [r_neigh : RNeighArgs, selection : Selections, input_ok : BOOLEAN]
  /\ args = [r_neigh |-> Nothing, selection |-> None]
  /\ exit_status = Nothing
  /\ error = ""
  /\ u = "unloaded"
  /\ description = <<>>
  /\ atoms = <<>>
  /\ data = <<>>
  /\ ts = 0
  /\ neighborlists = <<>>
  /\ graph = EmptyGraph
  /\ atom_indices_list = <<>>
  /\ aggregates = <<>>
  /\ iterations = 0
  /\ result = Nothing
  /\ stdout = Nothing
  /\ GenIdle

\* parser.parse_args(): a value that float() rejects is a usage error
ParseArgs ==
  /\ pc = "start"
  /\ IF ArgAccepted(argv.r_neigh)
     THEN /\ args' = [r_neigh |-> ParsedRNeigh(argv.r_neigh),
                      selection |-> argv.selection]
          /\ pc' = "parsed"
          /\ UNCHANGED exit_status
     ELSE /\ pc' = "usage_error"
          /\ exit_status' = Some(2)
          /\ UNCHANGED args
  /\ UNCHANGED <<argv, error, u, description, atoms, data, ts, neighborlists,
                 graph, atom_indices_list, aggregates, iterations, result,
                 stdout>>
  /\ UNCHANGED genVars

\* u = mda.Universe(*args.input): unreadable input is fatal
LoadUniverse ==
  /\ pc = "parsed"
  /\ IF argv.input_ok
     THEN pc' = "loaded" /\ u' = "loaded" /\ UNCHANGED <<exit_status, error>>
     ELSE /\ pc' = "raised"
          /\ error' = "InputError"
          /\ exit_status' = Some(1)
          /\ UNCHANGED u
  /\ UNCHANGED <<argv, args, description, atoms, data, ts, neighborlists,
                 graph, atom_indices_list, aggregates, iterations, result,
                 stdout>>
  /\ UNCHANGED genVars

\* determine_aggregates(u, args.r_neigh, args.selection) up to the frame loop
CallDetermineAggregates ==
  /\ pc = "loaded"
  /\ description' = Description(args.r_neigh, args.selection)
  /\ atoms' = SelectAtoms(args.selection)
  /\ data' = <<>>
  /\ ts' = 0
  /\ pc' = "frame"
  /\ UNCHANGED <<argv, args, exit_status, error, u, neighborlists, graph,
                 atom_indices_list, aggregates, iterations, result, stdout>>
  /\ UNCHANGED genVars

\* one pass of "for ts in u.trajectory" up to the while loop: the frame's
\* positions are read, the neighbour lists computed and the graph built
FrameStart ==
  /\ pc = "frame"
  /\ ts < NFrames
  /\ IF args.r_neigh = Nothing
     THEN \* the cutoff is no number: the distance comparison raises
          /\ pc' = "raised"
          /\ error' = "TypeError"
          /\ exit_status' = Some(1)
          /\ UNCHANGED <<neighborlists, graph, atom_indices_list, aggregates,
                         iterations>>
     ELSE \E positions \in FramePositions :
            /\ neighborlists' = NeighborLists(atoms, positions, Box, args.r_neigh[1])
            /\ graph' = BuildGraph(atoms, neighborlists')
            /\ atom_indices_list' = atoms
            /\ aggregates' = <<>>
            /\ iterations' = 0
            /\ pc' = "loop"
            /\ UNCHANGED <<exit_status, error>>
  /\ UNCHANGED <<argv, args, u, description, atoms, data, ts, result, stdout>>
  /\ UNCHANGED genVars

\* one iteration of "while len(atom_indices_list) > 0"
PartitionStep ==
  /\ pc = "loop"
  /\ Len(atom_indices_list) > 0
  /\ iterations' = iterations + 1
  /\ IF DfsRaises(graph, atom_indices_list[1])
     THEN \* the generator raises before it yields a node
          /\ pc' = "raised"
          /\ error' = "KeyError"
          /\ exit_status' = Some(1)
          /\ UNCHANGED <<atom_indices_list, aggregates>>
     ELSE LET aggregate == DfsPostorderNodes(graph, atom_indices_list[1])
          IN /\ aggregates' = Append(aggregates, aggregate)
             /\ atom_indices_list' = ListRemoveAll(atom_indices_list, aggregate)
             /\ UNCHANGED <<pc, exit_status, error>>
  /\ UNCHANGED <<argv, args, u, description, atoms, data, ts, neighborlists,
                 graph, result, stdout>>
  /\ UNCHANGED genVars

\* data[str(ts)] = aggregates, and on to the next frame
FrameEnd ==
  /\ pc = "loop"
  /\ Len(atom_indices_list) = 0
  /\ data' = DictSet(data, TsStr(ts), aggregates)
  /\ ts' = ts + 1
  /\ pc' = "frame"
  /\ UNCHANGED <<argv, args, exit_status, error, u, description, atoms,
                 neighborlists, graph, atom_indices_list, aggregates,
                 iterations, result, stdout>>
  /\ UNCHANGED genVars

\* return { "description" : description, "data" : data }
Return ==
  /\ pc = "frame"
  /\ ts = NFrames
  /\ result' = Some([description |-> description, data |-> data])
  /\ pc' = "returned"
  /\ UNCHANGED <<argv, args, exit_status, error, u, description, atoms, data,
                 ts, neighborlists, graph, atom_indices_list, aggregates,
                 iterations, stdout>>
  /\ UNCHANGED genVars

\* print(json.dumps(result, indent = 2))
PrintResult ==
  /\ pc = "returned"
  /\ stdout' = result
  /\ exit_status' = Some(0)
  /\ pc' = "printed"
  /\ UNCHANGED <<argv, args, error, u, description, atoms, data, ts,
                 neighborlists, graph, atom_indices_list, aggregates,
                 iterations, result>>
  /\ UNCHANGED genVars

Next ==
  \/ ParseArgs
  \/ LoadUniverse
  \/ CallDetermineAggregates
  \/ FrameStart
  \/ PartitionStep
  \/ FrameEnd
  \/ Return
  \/ PrintResult

Spec == Init /\ [][Next]_vars

\* the aggregate detector is not running
AggIdle ==
  /\ pc = "idle"
  /\ argv = [r_neigh |-> [kind |-> "absent", tok |-> <<>>], selection |-> None,
             input_ok |-> TRUE]
  /\ args = [r_neigh |-> Nothing, selection |-> None]
  /\ exit_status = Nothing
  /\ error = ""
  /\ u = "unloaded"
  /\ description = <<>>
  /\ atoms = <<>>
  /\ data = <<>>
  /\ ts = 0
  /\ neighborlists = <<>>
  /\ graph = EmptyGraph
  /\ atom_indices_list = <<>>
  /\ aggregates = <<>>
  /\ iterations = 0
  /\ result = Nothing
  /\ stdout = Nothing

GenInit ==
  /\ AggIdle
  /\ run = 1
  /\ previous_output = Nothing
  /\ \E type \in TypeTokens, e1 \in Entropies, e2 \in Entropies :
       GenProcessStart(type, e1, e2)

\* main() up to the molecule loop: random.seed(RANDOM_SEED), the empty
\* universe, and the common orientation of a system that is not disordered
GenSetup ==
  /\ gpc = "start"
  /\ py_random' = Seeded(RANDOM_SEED)
  /\ seeded' = {"random"}
  /\ ix' = 0
  /\ bonds' = <<>>
  /\ all_molecules' = <<>>
  /\ IF ~IsDisordered(system_type)
     THEN /\ molecule_rotation' = Some([id |-> np_random.n, rot |-> NpRotation(np_random)])
          /\ np_random' = Advance(np_random)
          /\ draws' = Append(draws, [purpose |-> "orientation", source |-> "numpy"])
     ELSE UNCHANGED <<molecule_rotation, np_random, draws>>
  /\ imol' = 0
  /\ gpc' = "molecule"
  /\ UNCHANGED <<system_type, iatom, xyz, molecule_atoms, output, rules_fired,
                 applied, run, previous_output>>
  /\ UNCHANGED aggVars

\* the head of "for imol in range(NMOL)"
GenMolecule ==
  /\ gpc = "molecule"
  /\ imol < NMOL
  /\ molecule_atoms' = <<>>
  /\ xyz' = <<0, 0, 0>>
  /\ iatom' = 0
  /\ gpc' = "atom"
  /\ UNCHANGED <<system_type, py_random, np_random, seeded, ix, imol, bonds,
                 molecule_rotation, all_molecules, output, rules_fired, draws,
                 applied, run, previous_output>>
  /\ UNCHANGED aggVars

\* one pass of "for iatom in range(NPOLY)": the atom is created at x, y, z
\* and the coordinates of the next atom are calculated
GenAtom ==
  /\ gpc = "atom"
  /\ iatom < NPOLY
  /\ molecule_atoms' = Append(molecule_atoms, xyz)
  /\ bonds' = IF iatom > 0 THEN Append(bonds, <<ix - 1, ix>>) ELSE bonds
  /\ ix' = ix + 1
  /\ xyz' = NextPoint(system_type, xyz, iatom, NpRotation(np_random))
  /\ IF RandomRule(system_type)
     THEN /\ np_random' = Advance(np_random)
          /\ draws' = Append(draws, [purpose |-> "bond", source |-> "numpy"])
     ELSE UNCHANGED <<np_random, draws>>
  /\ rules_fired' = rules_fired \cup RulesOf(system_type)
  /\ iatom' = iatom + 1
  /\ UNCHANGED <<gpc, system_type, py_random, seeded, imol, molecule_rotation,
                 all_molecules, output, applied, run, previous_output>>
  /\ UNCHANGED aggVars

\* the tail of the molecule loop: the molecule is oriented and translated
GenPlace ==
  /\ gpc = "atom"
  /\ iatom = NPOLY
  /\ LET rotation == IF IsDisordered(system_type)
                     THEN Some([id |-> np_random.n, rot |-> NpRotation(np_random)])
                     ELSE molecule_rotation
     IN /\ molecule_rotation' = rotation
        /\ all_molecules' = all_molecules
                              \o Placed(molecule_atoms, rotation[1].rot,
                                        Translation(py_random))
        /\ applied' = Append(applied, rotation[1])
  /\ py_random' = Advance(Advance(Advance(py_random)))
  /\ IF IsDisordered(system_type)
     THEN /\ np_random' = Advance(np_random)
          /\ draws' = draws \o <<[purpose |-> "translation", source |-> "random"],
                                 [purpose |-> "orientation", source |-> "numpy"]>>
     ELSE /\ draws' = Append(draws, [purpose |-> "translation", source |-> "random"])
          /\ UNCHANGED np_random
  /\ imol' = imol + 1
  /\ gpc' = "molecule"
  /\ UNCHANGED <<system_type, seeded, ix, iatom, xyz, bonds, molecule_atoms,
                 output, rules_fired, run, previous_output>>
  /\ UNCHANGED aggVars

\* u.add_bonds(bonds, ...) and all_molecules.write(args.output)
GenWrite ==
  /\ gpc = "molecule"
  /\ imol = NMOL
  /\ output' = Some([positions |-> all_molecules, bonds |-> bonds])
  /\ gpc' = "done"
  /\ UNCHANGED <<system_type, py_random, np_random, seeded, ix, imol, iatom,
                 xyz, bonds, molecule_atoms, molecule_rotation, all_molecules,
                 rules_fired, draws, applied, run, previous_output>>
  /\ UNCHANGED aggVars

\* the same command line is run a second time, in a new process
GenRerun ==
  /\ gpc = "done"
  /\ run = 1
  /\ run' = 2
  /\ previous_output' = output
  /\ gpc' = "start"
  /\ \E e1 \in Entropies, e2 \in Entropies :
       /\ py_random' = Seeded(e1)
       /\ np_random' = Seeded(e2)
  /\ seeded' = {}
  /\ ix' = 0
  /\ imol' = 0
  /\ iatom' = 0
  /\ xyz' = <<0, 0, 0>>
  /\ bonds' = <<>>
  /\ molecule_atoms' = <<>>
  /\ molecule_rotation' = Nothing
  /\ all_molecules' = <<>>
  /\ output' = Nothing
  /\ rules_fired' = {}
  /\ draws' = <<>>
  /\ applied' = <<>>
  /\ UNCHANGED system_type
  /\ UNCHANGED aggVars

GenNext ==
  \/ GenSetup
  \/ GenMolecule
  \/ GenAtom
  \/ GenPlace
  \/ GenWrite
  \/ GenRerun

SpecGen == GenInit /\ [][GenNext]_vars

(* ====================== properties of the detector ==================== *)
\* the particles the run analyses: those the selection matches, all
\* particles when no selection is given
Analysed ==
  {i \in Particles :
     \/ argv.selection = None
     \/ argv.selection = "type 1" /\ TypeOf(i) = "1"
     \/ argv.selection = "type 2" /\ TypeOf(i) = "2"}

\* the places of particle a in a list of aggregates
Places(aggs, a) ==
  UNION {{<<k, j>> : j \in {j \in 1..Len(aggs[k]) : aggs[k][j] = a}} :
           k \in 1..Len(aggs)}

\* every particle of S is at exactly one place of aggs, and no other particle
IsPartition(aggs, S) ==
  /\ \A a \in S : Cardinality(Places(aggs, a)) = 1
  /\ \A k \in 1..Len(aggs) : \A j \in 1..Len(aggs[k]) : aggs[k][j] \in S

\* the while loop of the current frame is over: left normally or by the
\* exception of the traversal
FrameProcessed ==
  \/ pc = "loop" /\ atom_indices_list = <<>>
  \/ error = "KeyError"

\* determine_aggregates has been entered
Called == description # <<>>

NeighboursOf(S) == UNION {Range(neighborlists[a]) : a \in S}

RECURSIVE Reach(_)
\* the particles joined to S by chains of neighbour pairs
Reach(S) ==
  LET S1 == S \cup NeighboursOf(S)
  IN IF S1 = S THEN S ELSE Reach(S1)

SameAggregate(aggs, i, j) ==
  \E k \in 1..Len(aggs) : i \in Range(aggs[k]) /\ j \in Range(aggs[k])

\* the aggregates are the connected components of the frame's graph
AreComponents(aggs) ==
  \A i \in Range(atoms) : \A j \in Range(atoms) :
    SameAggregate(aggs, i, j) <=> j \in Reach({i})

\* C2: once a frame is processed, two analysed particles are in the same
\* aggregate if and only if a chain of neighbour pairs joins them (three
\* particles in a line at spacing 1 give three singletons at cutoff 0.5).
C2_Components == FrameProcessed => AreComponents(aggregates)

\* C2, for the frames whose while loop is left normally
C2_ComponentsWhenRecorded ==
  pc = "loop" /\ atom_indices_list = <<>> => AreComponents(aggregates)

\* C3: an iteration of the partition loop seeded at a particle without
\* neighbours appends the one-element aggregate of that particle and raises
\* nothing.
C3_IsolatedSingleton ==
  [][(/\ pc = "loop"
      /\ atom_indices_list # <<>>
      /\ neighborlists[atom_indices_list[1]] = <<>>)
       => (/\ pc' = "loop"
           /\ error' = ""
           /\ aggregates' = Append(aggregates, <<atom_indices_list[1]>>))]_vars

\* the entries of d are those of the frames 0 .. n - 1, in that order
KeysOfFrames(d, n) ==
  /\ Len(d) = n
  /\ \A i \in 1..Len(d) : d[i].key = TsStr(i - 1)

\* C4: the result has exactly the keys description and data, and data holds
\* one entry per frame, keyed by the text of the frame's Timestep, in the
\* order the frames were read; an entry once recorded is never changed.
C4_FrameKeys ==
  /\ [](/\ pc \in {"frame", "loop"} => KeysOfFrames(data, ts)
        /\ result # Nothing =>
             /\ DOMAIN result[1] = {"description", "data"}
             /\ KeysOfFrames(result[1].data, NFrames))
  /\ [][\/ data' = data
        \/ ~Called /\ data' = <<>>
        \/ /\ Len(data') = Len(data) + 1
           /\ \A i \in 1..Len(data) : data'[i] = data[i]
           /\ data'[Len(data')].value = aggregates]_vars

\* the result of a run whose frames gave different aggregates was printed
C4_Witness ==
  /\ pc = "printed"
  /\ NFrames >= 2
  /\ Len(stdout[1].data) = NFrames
  /\ stdout[1].data[1].value # stdout[1].data[2].value

\* the tokens of RNeighTokens that are decimal numerals, with their values
NumeralValues ==
  { <<<<"1", ".", "2">>, 120>>, <<<<"0", ".", "5">>, 50>>, <<<<"0">>, 0>>,
    <<<<"-", "1">>, -100>>, <<<<"-", "0", ".", "5">>, -50>> }

IsNumeral(tok) == \E p \in NumeralValues : p[1] = tok
ValueOfNumeral(tok) == (CHOOSE p \in NumeralValues : p[1] = tok)[2]

\* C5 as amended: a value of --r_neigh that is no number is rejected at
\* parse time with status 2, before the universe is loaded and before
\* determine_aggregates runs; every number is accepted, also zero and the
\* negative ones, and determine_aggregates is called with it (with 1.2 when
\* the option is absent, with None when it is given without a value).
C5_NonNumericRejected ==
  LET a == argv.r_neigh
  IN /\ pc = "usage_error" =>
          /\ a.kind = "value" /\ ~IsNumeral(a.tok)
          /\ exit_status = Some(2)
          /\ u = "unloaded"
          /\ ~Called
     /\ a.kind = "value" /\ ~IsNumeral(a.tok) => pc \in {"start", "usage_error"}
     /\ Called =>
          args.r_neigh = CASE a.kind = "absent" -> Some(120)
                           [] a.kind = "novalue" -> Nothing
                           [] a.kind = "value" -> Some(ValueOfNumeral(a.tok))

\* determine_aggregates runs with a cutoff that is not positive
C5_Witness ==
  /\ Called
  /\ args.r_neigh # Nothing
  /\ args.r_neigh[1] <= 0

\* C5: a value of --r_neigh that is not positive or no number never passes
\* parse_args, and determine_aggregates is only called with a positive
\* number.
C5_PositiveCutoffOnly ==
  LET a == argv.r_neigh
  IN /\ Called => args.r_neigh # Nothing /\ args.r_neigh[1] > 0
     /\ (a.kind = "value" /\ (~IsNumeral(a.tok) \/ ValueOfNumeral(a.tok) <= 0))
          => pc \in {"start", "usage_error"}

\* the first analysed particle that is in none of the first k aggregates
FirstUnassigned(aggs, k) ==
  LET taken == UNION {Range(aggs[m]) : m \in 1..k}
      free == Range(atoms) \ taken
  IN CHOOSE a \in free : \A b \in free : a <= b

\* C10: in every frame (1) the seed of each aggregate, the first particle
\* still unassigned, is the last element of the aggregate, (2) the seeds
\* ascend, and (3) the loop ends with the unassigned list empty after at
\* most as many iterations as there are analysed particles.
C10_PartitionLoop ==
  /\ pc = "loop" \/ error = "KeyError" =>
       /\ \A k \in 1..Len(aggregates) :
            /\ aggregates[k] # <<>>
            /\ aggregates[k][Len(aggregates[k])] = FirstUnassigned(aggregates, k - 1)
       /\ \A k \in 1..(Len(aggregates) - 1) :
            aggregates[k][Len(aggregates[k])]
              < aggregates[k + 1][Len(aggregates[k + 1])]
  /\ FrameProcessed =>
       /\ atom_indices_list = <<>>
       /\ iterations <= Len(atoms)

\* C10, without the end of the loop: the seeds, and the iterations so far
C10_SeedsWhileLooping ==
  /\ pc = "loop" \/ error = "KeyError" =>
       /\ \A k \in 1..Len(aggregates) :
            /\ aggregates[k] # <<>>
            /\ aggregates[k][Len(aggregates[k])] = FirstUnassigned(aggregates, k - 1)
       /\ iterations <= Len(atoms)
  /\ pc = "loop" /\ atom_indices_list = <<>> => iterations = Len(aggregates)

(* ===================== properties of the generator ==================== *)
TokDisorderedRandom == StrDisordered \o <<"-">> \o StrRandom
TokDisorderedRods == StrDisordered \o <<"-">> \o StrRods
TokDisorderedHelices == StrDisordered \o <<"-">> \o StrHelices

\* the molecule being built has all its atoms and is not yet placed
MoleculeBuilt == gpc = "atom" /\ iatom = NPOLY

\* squared distance of a point from the z axis
Radial2(p) == p[1] * p[1] + p[2] * p[2]

\* C6: for helices every particle of a built molecule is at the tube radius
\* from the z axis (within the rounding of the fixed-point coordinates) and
\* z advances by PITCH / PER_TURN from each particle to the next.
C6_HelixGeometry ==
  MoleculeBuilt /\ system_type = StrHelices =>
    /\ \A i \in 1..NPOLY :
         Abs(Radial2(molecule_atoms[i]) - RTUBE * RTUBE) <= 2 * RTUBE
    /\ \A i \in 1..(NPOLY - 1) :
         Abs(molecule_atoms[i + 1][3] - molecule_atoms[i][3]
               - (PITCH * 10) \div PER_TURN) <= 1

\* C6, for the particles after the first
C6_HelixGeometryAfterFirst ==
  MoleculeBuilt /\ system_type = StrHelices =>
    /\ \A i \in 2..NPOLY :
         Abs(Radial2(molecule_atoms[i]) - RTUBE * RTUBE) <= 2 * RTUBE
    /\ \A i \in 1..(NPOLY - 1) :
         Abs(molecule_atoms[i + 1][3] - molecule_atoms[i][3]
               - (PITCH * 10) \div PER_TURN) <= 1

OrientationDraws ==
  Cardinality({i \in 1..Len(draws) : draws[i].purpose = "orientation"})

\* placed atom i of molecule m
PlacedAtom(m, i) == all_molecules[(m - 1) * NPOLY + i]

VecSub(v, w) == <<v[1] - w[1], v[2] - w[2], v[3] - w[3]>>

C8_Reproducible ==
  gpc = "done" /\ run = 2 => output = previous_output

\* C8, its reason: every draw is taken from a source that was seeded
C8_DrawsSeeded ==
  \A i \in 1..Len(draws) : draws[i].source \in seeded

\* C8, for the translations alone
C8_TranslationsSeeded ==
  \A i \in 1..Len(draws) :
    draws[i].purpose = "translation" => draws[i].source \in seeded

\* the shape of a built molecule
IsRod == \A i \in 1..NPOLY : molecule_atoms[i] = <<0, 0, (i - 1) * LBOND>>
IsHelix == \A i \in 2..NPOLY : molecule_atoms[i] = HelixPoint(i - 2)
IsWalk ==
  \A i \in 1..(NPOLY - 1) :
    LET b == VecSub(molecule_atoms[i + 1], molecule_atoms[i])
    IN b[1] * b[1] + b[2] * b[2] + b[3] * b[3] = LBOND * LBOND
IsPoint == \A i \in 1..NPOLY : molecule_atoms[i] = <<0, 0, 0>>

\* C9: for each of the six tokens exactly one shaping rule runs, the one the
\* base word of the token names.
C9_SixTokens ==
  gpc = "done" =>
    /\ system_type \in {StrRandom, TokDisorderedRandom} => rules_fired = {"random"}
    /\ system_type \in {StrRods, TokDisorderedRods} => rules_fired = {"rods"}
    /\ system_type \in {StrHelices, TokDisorderedHelices} => rules_fired = {"helices"}

\* C9 as amended: for random, rods, helices, disordered-rods and
\* disordered-helices exactly one shaping rule runs, the one the base word
\* names, and the molecule has that shape with or without the prefix; for
\* disordered-random no rule runs and every particle stays at the origin.
C9_FiveTokens ==
  /\ gpc = "done" =>
       /\ system_type = StrRandom => rules_fired = {"random"}
       /\ system_type \in {StrRods, TokDisorderedRods} => rules_fired = {"rods"}
       /\ system_type \in {StrHelices, TokDisorderedHelices} => rules_fired = {"helices"}
       /\ system_type = TokDisorderedRandom => rules_fired = {}
  /\ MoleculeBuilt =>
       /\ system_type = StrRandom => IsWalk
       /\ system_type \in {StrRods, TokDisorderedRods} => IsRod
       /\ system_type \in {StrHelices, TokDisorderedHelices} => IsHelix
       /\ system_type = TokDisorderedRandom => IsPoint

\* a molecule of disordered rods is built, shaped by the rod rule alone
C9_Witness ==
  /\ MoleculeBuilt
  /\ system_type = TokDisorderedRods
  /\ rules_fired = {"rods"}
  /\ IsRod

=============================================================================
